---------------------------- MODULE Spec2Model ----------------------------
(***************************************************************************)
(* A model of capyKEM, an implementation of ML-KEM (FIPS 203): the field,  *)
(* ring and NTT arithmetic, the samplers, the encodings, K-PKE and the     *)
(* three KEM operations ml_kem_keygen, mlkem_encaps and mlkem_decaps.      *)
(*                                                                         *)
(* Byte strings are sequences of bytes (1-indexed, byte i of the code is   *)
(* element i+1); polynomials are functions on 0..n-1 as in the code.       *)
(***************************************************************************)
EXTENDS Integers, Sequences, FiniteSets, TLC

(***************************************************************************)
(* Program constants.                                                      *)
(***************************************************************************)
q == 3329
n == 256
ENCODE_12 == (n * 12) \div 8
MASK_12 == 2 ^ 12 - 1
bar_mul == 5039
bar_shift == 24
Zeta == 17
NInv == 3303

Pow2(e) == 2 ^ e
U16 == 65536

\* x >> s and x & (2^s - 1) on non-negative integers
Shr(x, s) == x \div Pow2(s)
LowBits(x, s) == x % Pow2(s)

\* An explicit copy of a function on 0..m (TLC keeps [x \in S |-> e] unevaluated
\* otherwise and would recompute e at every application).
Eval(f) == f @@ <<>>

\* F(e), with e evaluated before F is applied to it (TLC evaluates an operator
\* argument only where it is first used, deep inside the computation that
\* uses it; long pipelines then exhaust the evaluator's stack).
Then(e, F(_)) == CHOOSE r \in {F(x) : x \in {e}} : TRUE

(***************************************************************************)
(* Field arithmetic: math/field_element.rs                                 *)
(***************************************************************************)
\* FieldElement::reduce_once on a u16: x = val - q (wrapping), then
\* x + (x >> 15) * q (wrapping).
reduce_once(val) ==
    LET x == (val - q) % U16
    IN  (x + Shr(x, 15) * q) % U16

\* FieldElement::new
FNew(val) == reduce_once(val)

\* FieldElement::check_reduced: Err exactly when val > q
check_reduced(val) == ~(val > q)

\* (x * bar_mul) >> bar_shift, a u64 product in the code.  The model's integers
\* are 32-bit, so x is split as hi * 2^12 + lo and the shift is done in two
\* halves; the value is the same.
BarrettQuotient(x) ==
    LET half == Pow2(bar_shift \div 2)
        hi == x \div half
        lo == x % half
    IN  (hi * bar_mul + (lo * bar_mul) \div half) \div half

\* A Barrett reduction without the final conditional subtraction.
barrett_reduce_unreduced(product) ==
    (product - BarrettQuotient(product) * q) % U16

\* FieldElement::barrett_reduce(product: u32)
barrett_reduce(product) ==
    LET quotient == BarrettQuotient(product)
    IN  FNew((product - quotient * q) % U16)

\* impl Mul<FieldElement> for FieldElement, Mul<u16> for FieldElement
FMul(a, b) == barrett_reduce(a * b)

\* impl Add for FieldElement
FAdd(a, b) == FNew((a + b) % U16)

\* impl AddAssign for FieldElement
FAddAssign(a, b) == ((a + b) % U16) % q

\* impl Sub for FieldElement
FSub(a, b) == FNew(IF a < b THEN (a + q - b) % U16 ELSE a - b)

(***************************************************************************)
(* Roots of unity: the tables K_NTT_ROOTS and K_MOD_ROOTS, as the tests of  *)
(* math/util.rs generate them.                                             *)
(***************************************************************************)
RECURSIVE BitRevAcc(_, _, _)
BitRevAcc(i, ret, cnt) ==
    IF cnt = 0 THEN ret
    ELSE BitRevAcc(i \div 2, ret * 2 + (i % 2), cnt - 1)

bitreverse(i) == BitRevAcc(i, 0, 7)

RECURSIVE ModPowAcc(_, _, _, _)
ModPowAcc(result, base, exp, modulus) ==
    IF exp = 0 THEN result
    ELSE ModPowAcc(IF exp % 2 = 1 THEN (result * base) % modulus ELSE result,
                   (base * base) % modulus, exp \div 2, modulus)

mod_pow(base, exp, modulus) == ModPowAcc(1, base % modulus, exp, modulus)

K_NTT_ROOTS == Eval([i \in 0..127 |-> mod_pow(Zeta, bitreverse(i), q)])

K_MOD_ROOTS == Eval([i \in 0..127 |-> mod_pow(Zeta, 2 * bitreverse(i) + 1, q)])

(***************************************************************************)
(* NTT-domain arithmetic: math/ntt_element.rs                              *)
(***************************************************************************)
PolyZero == Eval([i \in 0..(n - 1) |-> 0])

\* One pass of the while loop of NttElement::ntt for a given len; the block
\* starting at start = b * 2 * len uses zeta = K_NTT_ROOTS[kbase + b].
NttLayer(f, len, kbase) ==
    Eval([j \in 0..(n - 1) |->
        LET pos == j % (2 * len)
            zeta == K_NTT_ROOTS[kbase + j \div (2 * len)]
        IN  IF pos < len
            THEN FAddAssign(f[j], FNew(FMul(zeta, f[j + len]) % q))
            ELSE FSub(f[j - len], FNew(FMul(zeta, f[j]) % q))])

RECURSIVE NttLoop(_, _, _)
NttLoop(f, len, k) ==
    IF len >= 2
    THEN Then(NttLayer(f, len, k),
              LAMBDA g : NttLoop(g, len \div 2, k + n \div (2 * len)))
    ELSE f

\* NttElement::ntt: k = 1, len = 128, 64, ..., 2
ntt(f) == NttLoop(f, 128, 1)

\* One pass of the while loop of NttElement::ntt_inv; k counts down from
\* kbase, so block b uses K_NTT_ROOTS[kbase - b].
NttInvLayer(f, len, kbase) ==
    Eval([j \in 0..(n - 1) |->
        LET pos == j % (2 * len)
            zeta == K_NTT_ROOTS[kbase - j \div (2 * len)]
        IN  IF pos < len
            THEN FAdd(f[j], f[j + len])
            ELSE FNew(FMul(zeta, FSub(f[j], f[j - len])))])

RECURSIVE NttInvLoop(_, _, _)
NttInvLoop(f, len, k) ==
    IF len <= 128
    THEN Then(NttInvLayer(f, len, k),
              LAMBDA g : NttInvLoop(g, len * 2, k - n \div (2 * len)))
    ELSE f

\* An inverse transform without the final scaling by 3303.
ntt_inv_unscaled(f) == NttInvLoop(f, 2, 127)

\* NttElement::ntt_inv: k = 127, len = 2, 4, ..., 128, then every coefficient
\* times 3303
ntt_inv(f) ==
    Then(NttInvLoop(f, 2, 127),
         LAMBDA g : Eval([j \in 0..(n - 1) |-> FMul(g[j], NInv)]))

\* A base case that multiplies coefficient by coefficient.
base_case_multiply_pointwise(a_0, a_1, b_0, b_1, gamma) ==
    << FMul(a_0, b_0), FMul(a_1, b_1) >>

\* NttElement::base_case_multiply
base_case_multiply(a_0, a_1, b_0, b_1, gamma) ==
    << FAdd(FMul(a_0, b_0), FMul(FMul(a_1, b_1), gamma)),
       FAdd(FMul(a_0, b_1), FMul(a_1, b_0)) >>

\* NttElement::multiply_ntts
multiply_ntts(a, b) ==
    Eval([j \in 0..(n - 1) |->
        LET i == j \div 2
            c == base_case_multiply(a[2 * i], a[2 * i + 1], b[2 * i], b[2 * i + 1],
                                    K_MOD_ROOTS[i])
        IN  c[(j % 2) + 1]])

\* impl AddAssign / Add for NttElement and RingElement (coefficient-wise)
PolyAddAssign(a, b) == Eval([j \in 0..(n - 1) |-> FAddAssign(a[j], b[j])])
PolyAdd(a, b) == Eval([j \in 0..(n - 1) |-> FAdd(a[j], b[j])])
\* impl Sub for RingElement
PolySub(a, b) == Eval([j \in 0..(n - 1) |-> FSub(a[j], b[j])])

(***************************************************************************)
(* The SHA-3 family.  The sha3 crate is an external collaborator; only the  *)
(* way the code calls it is modelled.  Each of the four algorithms is a     *)
(* deterministic function from the absorbed bytes to an output stream, and  *)
(* different algorithms give different streams on the same input.  The      *)
(* stand-in below is a two-lane polynomial hash followed by a counter-mode  *)
(* mixer: it has no cryptographic strength and is only meant to be          *)
(* deterministic, algorithm-separated and well spread.                      *)
(***************************************************************************)
HashMod == 32749
LaneA == 263
LaneB == 1531

RECURSIVE PolyHash(_, _, _, _)
PolyHash(bytes, lo, hi, mult) ==
    IF lo > hi THEN 0
    ELSE IF lo = hi THEN (bytes[lo] + 1) % HashMod
    ELSE LET mid == (lo + hi) \div 2
         IN  (PolyHash(bytes, lo, mid, mult) * mod_pow(mult, hi - mid, HashMod)
              + PolyHash(bytes, mid + 1, hi, mult)) % HashMod

\* hasher.update(..); hasher.finalize(): the sponge state after absorbing bytes
Absorb(alg, bytes) ==
    LET len == Len(bytes)
    IN  << (PolyHash(bytes, 1, len, LaneA) * 7 + alg * 1009 + len) % HashMod,
           (PolyHash(bytes, 1, len, LaneB) * 11 + alg * 2003 + len) % HashMod >>

Mix(x) == (x * 25173 + 13849) % U16
SwapBytes(x) == (x % 256) * 256 + x \div 256

\* byte number idx (from 0) of the output stream of a sponge state
SqueezeByte(st, idx) ==
    LET lane == st[(idx % 2) + 1]
        other == st[2 - (idx % 2)]
    IN  Mix(SwapBytes(Mix((lane * 2 + other * 3 + idx * 40503) % U16))) \div 256

\* the output bytes first .. first + len - 1 of the stream
Squeeze(st, first, len) == [i \in 1..len |-> SqueezeByte(st, first + i - 1)] \o <<>>

AlgSha3_256 == 1
AlgSha3_512 == 2
AlgShake128 == 3
AlgShake256 == 4

\* Sha3_256 / Sha3_512: update, finalize
Sha3_256(bytes) == Squeeze(Absorb(AlgSha3_256, bytes), 0, 32)
Sha3_512(bytes) == Squeeze(Absorb(AlgSha3_512, bytes), 0, 64)
\* Shake128 / Shake256: update, finalize_xof, then read `len` bytes from `first`
Shake128Read(bytes, first, len) == Squeeze(Absorb(AlgShake128, bytes), first, len)
Shake256Read(bytes, first, len) == Squeeze(Absorb(AlgShake256, bytes), first, len)

(***************************************************************************)
(* Samplers                                                                *)
(***************************************************************************)
\* One pass of the body of the while loop of NttElement::sample_ntt, on the
\* three bytes at offset off of buf.  a: the coefficients accepted so far (a
\* sequence: a[j + 1] is coefficients[j], Len(a) is the write index j).
SampleStep_d1_only(a, buf, off) ==
    LET d1 == (buf[off + 1] + 256 * buf[off + 2]) % 4096
    IN  IF d1 < q THEN Append(a, FNew(d1)) ELSE a

SampleStep(a, buf, off) ==
    LET b0 == buf[off + 1]
        b1 == buf[off + 2]
        b2 == buf[off + 3]
        d1 == (b0 + 256 * b1) % 4096
        d2 == (Shr(b1 + 256 * b2, 4)) % 4096
        a1 == IF d1 < q THEN Append(a, FNew(d1)) ELSE a
    IN  IF Len(a1) >= n THEN a1
        ELSE IF d2 < q THEN Append(a1, FNew(d2)) ELSE a1

\* The passes of the loop that use one 24-byte buffer: off = 0, 3, ..., 21,
\* stopping when j reaches n.
RECURSIVE SampleBlock(_, _, _)
SampleBlock(a, buf, off) ==
    IF off >= 24 \/ ~(Len(a) < n) THEN a
    ELSE SampleBlock(SampleStep(a, buf, off), buf, off + 3)

\* The while loop: whenever off >= 24 the next 24 bytes of the XOF are read
\* into buf and off restarts at 0.  reads: the number of reads made so far.
RECURSIVE SampleNttLoop(_, _, _)
SampleNttLoop(st, a, reads) ==
    IF ~(Len(a) < n) THEN a
    ELSE SampleNttLoop(st, SampleBlock(a, Squeeze(st, 24 * reads, 24), 0), reads + 1)

\* NttElement::sample_ntt(rho, ii, jj)
sample_ntt(rho, ii, jj) ==
    LET st == Absorb(AlgShake128, rho \o <<ii, jj>>)
        a == SampleNttLoop(st, <<>>, 0)
    IN  Eval([j \in 0..(n - 1) |-> a[j + 1]])

\* bit number i (from 0) of a byte string, least-significant bit of a byte first
BitOf(bytes, i) == Shr(bytes[i \div 8 + 1], i % 8) % 2

\* the number of ones among bits first .. first + cnt - 1
RECURSIVE BitSum(_, _, _)
BitSum(bytes, first, cnt) ==
    IF cnt = 0 THEN 0 ELSE BitOf(bytes, first) + BitSum(bytes, first + 1, cnt - 1)

\* A sampler that subtracts the first sum from the second.
sample_poly_cbd_swapped(eta, s, b) ==
    LET prf == Shake256Read(s \o <<b>>, 0, 64 * eta)
    IN  Eval([i \in 0..(n - 1) |->
            FSub(FNew(BitSum(prf, 2 * i * eta + eta, eta)),
                 FNew(BitSum(prf, 2 * i * eta, eta)))])

\* RingElement::sample_poly_cbd::<Eta>(s, b): 64 * eta bytes of
\* SHAKE-256(s || b); coefficient i is (sum of eta bits) - (sum of the next eta
\* bits), each sum a FieldElement.  The source file has the width-2 instance
\* (b_0 + b_1) - (b_2 + b_3), (b_4 + b_5) - (b_6 + b_7) per byte.
sample_poly_cbd(eta, s, b) ==
    LET prf == Shake256Read(s \o <<b>>, 0, 64 * eta)
    IN  Eval([i \in 0..(n - 1) |->
            FSub(FNew(BitSum(prf, 2 * i * eta, eta)),
                 FNew(BitSum(prf, 2 * i * eta + eta, eta)))])

(***************************************************************************)
(* Compression: math/field_element.rs, impl Compress for FieldElement      *)
(***************************************************************************)
\* A compression that truncates: the quotient without the adjustments.
compress_floor(d, val) == BarrettQuotient(val * Pow2(d)) % Pow2(d)

compress(d, val) ==
    LET dividend == val * Pow2(d)
        quotient == BarrettQuotient(dividend)
        remainder == dividend - quotient * q
        adj1 == IF remainder > q \div 2 THEN quotient + 1 ELSE quotient
        adj2 == IF remainder > q + q \div 2 THEN adj1 + 1 ELSE adj1
    IN  adj2 % Pow2(d)

\* A decompression that truncates: the shifted product without the rounding bit.
decompress_floor(d, y) == Shr(y * q, d) % U16

decompress(d, y) ==
    LET dividend == y * q
    IN  (Shr(dividend, d) + (Shr(dividend, d - 1) % 2)) % U16

\* impl Compress for RingElement
PolyCompress(d, f) == Eval([j \in 0..(n - 1) |-> compress(d, f[j])])
PolyDecompress(d, f) == Eval([j \in 0..(n - 1) |-> decompress(d, f[j])])

(***************************************************************************)
(* Encodings: math/encoding.rs and NttElement::byte_encode_12/decode_12    *)
(***************************************************************************)
RECURSIVE Gcd(_, _)
Gcd(a, b) == IF b = 0 THEN a ELSE Gcd(b, a % b)

\* EncodingUnit<D> = D * 8 / gcd(D, 8); ValueStep and ByteStep
ValueStep(d) == ((d * 8) \div Gcd(d, 8)) \div d

\* A byte step one byte too long: every chunk is followed by a padding byte.
ByteStep_padded(d) == ((d * 8) \div Gcd(d, 8)) \div 8 + 1

ByteStep(d) == ((d * 8) \div Gcd(d, 8)) \div 8

Min(a, b) == IF a < b THEN a ELSE b
Max(a, b) == IF a > b THEN a ELSE b

\* A packing that keeps only the first value of each chunk.
ChunkBit_first_value_only(vals, d, base, cnt, bit) ==
    bit < d /\ Shr(vals[base], bit) % 2 = 1

\* bit number bit of x = OR_j (v[j] << (d * j)) for the chunk of values
\* starting at index base; the values are u16
ChunkBit(vals, d, base, cnt, bit) ==
    \E j \in Max(0, (bit - 15 + d - 1) \div d)..Min(bit \div d, cnt - 1) :
        Shr(vals[base + j], bit - d * j) % 2 = 1

\* byte_encode::<D>(vals)
byte_encode(d, vals) ==
    LET val_step == ValueStep(d)
        byte_step == ByteStep(d)
        nbytes == (n \div val_step) * byte_step
        ByteAt(i) ==
            LET chunk == i \div byte_step
                within == i % byte_step
                BitVal(t) == IF ChunkBit(vals, d, chunk * val_step, val_step,
                                         8 * within + t)
                             THEN Pow2(t) ELSE 0
            IN  BitVal(0) + BitVal(1) + BitVal(2) + BitVal(3)
                + BitVal(4) + BitVal(5) + BitVal(6) + BitVal(7)
    IN  [i \in 1..nbytes |-> ByteAt(i - 1)] \o <<>>

\* byte_decode::<D>(bytes): chunks of byte_step bytes, zip with chunks of
\* val_step values; a short last chunk is zero-extended; values beyond the
\* input stay zero
byte_decode(d, bytes) ==
    LET val_step == ValueStep(d)
        byte_step == ByteStep(d)
        len == Len(bytes)
        nchunks == (len + byte_step - 1) \div byte_step
        XBit(chunk, bit) ==
            LET i == chunk * byte_step + bit \div 8
            IN  IF bit \div 8 < byte_step /\ i < len
                THEN Shr(bytes[i + 1], bit % 8) % 2 ELSE 0
        RECURSIVE Val(_, _, _)
        Val(chunk, j, t) ==
            IF t = d THEN 0
            ELSE XBit(chunk, d * j + t) * Pow2(t) + Val(chunk, j, t + 1)
    IN  Eval([i \in 0..(n - 1) |->
            IF i \div val_step < nchunks
            THEN LET v == Val(i \div val_step, i % val_step, 0)
                 IN  IF d = 12 THEN v % q ELSE v
            ELSE 0])

\* impl Encode<D> for NttElement: encode packs the coefficients; decode
\* unpacks them and converts with .into(), which is From<RingElement> for
\* NttElement, i.e. NttElement::new, which runs the forward transform
NttElement_encode(d, x) == byte_encode(d, x)
NttElement_decode(d, enc) == ntt(byte_decode(d, enc))

\* NttElement::byte_encode_12(b): appends 384 bytes to b.  Coefficients are
\* below 2^12 here, so the OR of the two shifted values is their sum.
byte_encode_12(f, b) ==
    b \o [i \in 1..ENCODE_12 |->
            LET pair == (i - 1) \div 3
                x == f[2 * pair] + f[2 * pair + 1] * 4096
            IN  Shr(x, 8 * ((i - 1) % 3)) % 256]

\* NttElement::byte_decode_12(b): Err on a wrong length or on a value that
\* check_reduced refuses after FieldElement::new has reduced it once
Decode12Val(b, i) ==
    LET pair == i \div 2
        dd == b[3 * pair + 1] + 256 * b[3 * pair + 2] + 65536 * b[3 * pair + 3]
    IN  IF i % 2 = 0 THEN FNew(dd % (MASK_12 + 1)) ELSE FNew(Shr(dd, 12))

byte_decode_12_ok(b) ==
    /\ Len(b) = ENCODE_12
    /\ \A i \in 0..(n - 1) : check_reduced(Decode12Val(b, i))

byte_decode_12(b) == Eval([i \in 0..(n - 1) |-> Decode12Val(b, i)])

(***************************************************************************)
(* Parameter sets (constants::parameter_sets): K, EtaOne, EtaTwo, Du, Dv   *)
(***************************************************************************)
ParameterSets ==
    [ KEM_512  |-> [K |-> 2, EtaOne |-> 3, EtaTwo |-> 2, Du |-> 10, Dv |-> 4],
      KEM_768  |-> [K |-> 3, EtaOne |-> 2, EtaTwo |-> 2, Du |-> 10, Dv |-> 4],
      KEM_1024 |-> [K |-> 4, EtaOne |-> 2, EtaTwo |-> 2, Du |-> 11, Dv |-> 5] ]

ParameterSetNames == {"KEM_512", "KEM_768", "KEM_1024"}

(***************************************************************************)
(* Results: Ok(value), Err(InvalidInput), or a panic (an out-of-range      *)
(* slice aborts the call).                                                 *)
(***************************************************************************)
Ok(v) == [tag |-> "Ok", val |-> v]
ErrInvalidInput == [tag |-> "Err", val |-> "InvalidInput"]
Panic == [tag |-> "Panic", val |-> "slice index out of range"]

\* bytes[from..to] of the code: the bytes numbered from .. to - 1 (from 0)
Slice(bytes, from, to) == SubSeq(bytes, from + 1, to)

Zeros(len) == [i \in 1..len |-> 0] \o <<>>

\* Zeroize::zeroize on a byte buffer: every byte overwritten with zero
zeroize(buf) == Zeros(Len(buf))

(***************************************************************************)
(* K-PKE: fips203/keygen.rs, encrypt.rs, decrypt.rs                        *)
(***************************************************************************)
\* for j in 0..k: acc += a_hat[row * k + j] * v[j]
RECURSIVE RowTimesVec(_, _, _, _, _, _)
RowTimesVec(acc, a_hat, v, row, j, k) ==
    IF j = k THEN acc
    ELSE Then(PolyAddAssign(acc, multiply_ntts(a_hat[row * k + j], v[j])),
              LAMBDA acc1 : RowTimesVec(acc1, a_hat, v, row, j + 1, k))

\* for item in vec.iter(): out = item.byte_encode_12(out)
RECURSIVE EncodeVec12(_, _, _, _)
EncodeVec12(out, vec, i, k) ==
    IF i = k THEN out
    ELSE Then(byte_encode_12(vec[i], out),
              LAMBDA out1 : EncodeVec12(out1, vec, i + 1, k))

\* k_pke_keygen::<P>(d): (ek_pke, dk_pke)
\* A key generation matrix filled with the indices in the order encryption
\* uses.
keygen_a_hat_untransposed(k, rho) ==
    Eval([ij \in 0..(k * k - 1) |-> sample_ntt(rho, ij \div k, ij % k)])

\* k_pke_keygen: for i in 0..k, for j in 0..k:
\* a_hat[i * k + j] = NttElement::sample_ntt(rho, j, i)
keygen_a_hat(k, rho) ==
    Eval([ij \in 0..(k * k - 1) |-> sample_ntt(rho, ij % k, ij \div k)])

\* k_pke_encrypt: for i in 0..k, for j in 0..k:
\* a_hat_transpose[i * k + j] = NttElement::sample_ntt(rho, i, j)
encrypt_a_hat_transpose(k, rho) ==
    Eval([ij \in 0..(k * k - 1) |-> sample_ntt(rho, ij \div k, ij % k)])

\* k_pke_keygen::<P>(d).  ek_pke, dk_pke: the pair returned; binding: the
\* local of that name (the output of G(d), rho || sigma) as the call leaves it.
k_pke_keygen(P, d) ==
    LET k == ParameterSets[P].K
        eta1 == ParameterSets[P].EtaOne
    IN
    Then(Sha3_512(d), LAMBDA b :
    LET rho == Slice(b, 0, 32)
        sigma == Slice(b, 32, 64)
    IN
    Then(keygen_a_hat(k, rho),
         LAMBDA a_hat :
    Then(Eval([i \in 0..(k - 1) |-> ntt(sample_poly_cbd(eta1, sigma, i))]),
         LAMBDA s_hat :
    Then(Eval([i \in 0..(k - 1) |-> ntt(sample_poly_cbd(eta1, sigma, k + i))]),
         LAMBDA e_hat :
    Then(Eval([i \in 0..(k - 1) |-> RowTimesVec(e_hat[i], a_hat, s_hat, i, 0, k)]),
         LAMBDA t :
    [ ek_pke  |-> EncodeVec12(<<>>, t, 0, k) \o rho,
      dk_pke  |-> EncodeVec12(<<>>, s_hat, 0, k),
      binding |-> b ])))))

\* .map(|j| (a_hat_transpose[i * k + j] * r_hat[j]).into()).sum()
RECURSIVE RowSum(_, _, _, _, _, _)
RowSum(acc, a_hat_transpose, r_hat, row, j, k) ==
    IF j = k THEN acc
    ELSE Then(PolyAdd(acc, ntt_inv(multiply_ntts(a_hat_transpose[row * k + j], r_hat[j]))),
              LAMBDA acc1 : RowSum(acc1, a_hat_transpose, r_hat, row, j + 1, k))

\* for i in 0..t_hat.len(): v += t_hat[i] * r_hat[i]
RECURSIVE DotProduct(_, _, _, _, _)
DotProduct(acc, t_hat, r_hat, i, k) ==
    IF i = k THEN acc
    ELSE Then(PolyAddAssign(acc, multiply_ntts(t_hat[i], r_hat[i])),
              LAMBDA acc1 : DotProduct(acc1, t_hat, r_hat, i + 1, k))

\* for ring in u.iter_mut(): c.append(encode::<Du>(ring.compress::<Du>()))
RECURSIVE EncodeVecDu(_, _, _, _, _)
EncodeVecDu(out, u, du, i, k) ==
    IF i = k THEN out
    ELSE Then(out \o byte_encode(du, PolyCompress(du, u[i])),
              LAMBDA out1 : EncodeVecDu(out1, u, du, i + 1, k))

\* k_pke_encrypt::<P>(ek_pke, m, rand): Result<Vec<u8>>
k_pke_encrypt(P, ek_pke, m, rand) ==
    LET k == ParameterSets[P].K
        eta2 == ParameterSets[P].EtaTwo
        du == ParameterSets[P].Du
        dv == ParameterSets[P].Dv
    IN
    IF Len(ek_pke) < ENCODE_12 * k + 32 THEN Panic
    ELSE IF \E i \in 0..(k - 1) :
                ~byte_decode_12_ok(Slice(ek_pke, i * ENCODE_12, (i + 1) * ENCODE_12))
    THEN ErrInvalidInput
    ELSE
    Then(Eval([i \in 0..(k - 1) |->
                byte_decode_12(Slice(ek_pke, i * ENCODE_12, (i + 1) * ENCODE_12))]),
         LAMBDA t_hat :
    LET rho == Slice(ek_pke, ENCODE_12 * k, ENCODE_12 * k + 32) IN
    Then(encrypt_a_hat_transpose(k, rho),
         LAMBDA a_hat_transpose :
    Then(Eval([i \in 0..(k - 1) |-> ntt(sample_poly_cbd(eta2, rand, i))]),
         LAMBDA r_hat :
    Then(Eval([i \in 0..(k - 1) |-> sample_poly_cbd(eta2, rand, k + i)]),
         LAMBDA e_1 :
    Then(sample_poly_cbd(eta2, rand, 2 * k),
         LAMBDA e2 :
    Then(Eval([i \in 0..(k - 1) |->
                PolyAdd(e_1[i], RowSum(PolyZero, a_hat_transpose, r_hat, i, 0, k))]),
         LAMBDA u :
    Then(PolyDecompress(1, byte_decode(1, m)),
         LAMBDA mu :
    Then(ntt_inv(DotProduct(PolyZero, t_hat, r_hat, 0, k)),
         LAMBDA v0 :
    Then(PolyAddAssign(PolyAddAssign(v0, e2), mu),
         LAMBDA v :
    Then(EncodeVecDu(<<>>, u, du, 0, k),
         LAMBDA c1 :
    Ok(c1 \o byte_encode(dv, PolyCompress(dv, v)))))))))))))

\* for i in 0..k: y += (s_hat[i] * u[i].into()).into()
RECURSIVE DecryptSum(_, _, _, _, _)
DecryptSum(acc, s_hat, u, i, k) ==
    IF i = k THEN acc
    ELSE Then(PolyAddAssign(acc, ntt_inv(multiply_ntts(s_hat[i], ntt(u[i])))),
              LAMBDA acc1 : DecryptSum(acc1, s_hat, u, i + 1, k))

\* k_pke_decrypt::<P>(dk_pke, c): Result<Vec<u8>>.  slice.split_at(size)
\* panics when fewer than size bytes are left.
k_pke_decrypt(P, dk_pke, c) ==
    LET k == ParameterSets[P].K
        du == ParameterSets[P].Du
        dv == ParameterSets[P].Dv
        encode_du_size == 32 * du
        c2_size == 32 * dv
    IN
    IF Len(c) < k * encode_du_size THEN Panic
    ELSE IF Len(dk_pke) < k * ENCODE_12 THEN Panic
    ELSE IF Len(c) < c2_size THEN Panic
    ELSE
    Then(Eval([i \in 0..(k - 1) |->
                PolyDecompress(du, byte_decode(du,
                    Slice(c, i * encode_du_size, (i + 1) * encode_du_size)))]),
         LAMBDA u :
    IF \E i \in 0..(k - 1) :
            ~byte_decode_12_ok(Slice(dk_pke, i * ENCODE_12, (i + 1) * ENCODE_12))
    THEN ErrInvalidInput
    ELSE
    Then(Eval([i \in 0..(k - 1) |->
                byte_decode_12(Slice(dk_pke, i * ENCODE_12, (i + 1) * ENCODE_12))]),
         LAMBDA s_hat :
    Then(PolyDecompress(dv, byte_decode(dv, Slice(c, Len(c) - c2_size, Len(c)))),
         LAMBDA v :
    Then(DecryptSum(PolyZero, s_hat, u, 0, k),
         LAMBDA y :
    Then(PolySub(v, y),
         LAMBDA w :
    Ok(byte_encode(1, PolyCompress(1, w))))))))

(***************************************************************************)
(* The random source (rand_core::RngCore).  Its state is the identity of    *)
(* the byte stream and the number of 32-byte blocks drawn from it so far;   *)
(* fill_bytes returns the next block.  Different blocks of a stream, and    *)
(* blocks of different streams, differ.                                     *)
(***************************************************************************)
MaxRngSeed == 0

RngBlock(seed, drawn) ==
    [i \in 1..32 |-> (seed * 101 + drawn * 59 + i * 17 + 4) % 256] \o <<>>

\* rng.fill_bytes(&mut buf) for a 32-byte buf
fill_bytes(rng) ==
    [ bytes |-> RngBlock(rng.seed, rng.drawn),
      rng   |-> [rng EXCEPT !.drawn = @ + 1] ]

\* A comparator that reports every pair of byte strings equal.
ct_eq_always_equal(a, b) == 1

\* subtle::ConstantTimeEq for byte slices: 1 when equal, 0 otherwise (slices of
\* different lengths are unequal)
ct_eq(a, b) ==
    IF Len(a) # Len(b) THEN 0
    ELSE IF \A i \in 1..Len(a) : a[i] = b[i] THEN 1 ELSE 0

(***************************************************************************)
(* ML-KEM: fips203/keygen.rs, encrypt.rs, decrypt.rs                       *)
(***************************************************************************)
\* keygen.rs hash_ek: the first 32 bytes of SHA3-512(ek)
hash_ek(ek) == Slice(Sha3_512(ek), 0, 32)

\* A packing that leaves the hash of ek out of dk.
pack_dk_without_hash(dk, ek, h_ek, z) == (dk \o ek) \o z

\* keygen.rs pack_dk: dk || ek || h_ek || z
pack_dk(dk, ek, h_ek, z) == ((dk \o ek) \o h_ek) \o z

\* ml_kem_keygen::<P>(rng).  seed: the bytes passed to k_pke_keygen;
\* z: the bytes packed at the end of dk; rng: the random source afterwards;
\* z_buf: the local z when the call returns; binding: the G(d) buffer of
\* k_pke_keygen when the call returns; dk_pke: the decryption key returned by
\* k_pke_keygen, before pack_dk extends it.
ml_kem_keygen(P, rng) ==
    Then(fill_bytes(rng), LAMBDA draw :
    LET z == draw.bytes IN
    Then(k_pke_keygen(P, z), LAMBDA pke :
    Then(hash_ek(pke.ek_pke), LAMBDA h_ek :
    [ ek   |-> pke.ek_pke,
      dk   |-> pack_dk(pke.dk_pke, pke.ek_pke, h_ek, z),
      seed |-> z,
      z    |-> z,
      rng  |-> draw.rng,
      z_buf   |-> zeroize(z),
      binding |-> pke.binding,
      dk_pke  |-> pke.dk_pke ])))

\* An encapsulation-side H that is SHA3-256 while keygen keeps its own hash.
hash_to_slice_sha3_256(data, slice_size) == Slice(Sha3_256(data), 0, slice_size)

\* encrypt.rs hash_to_slice(data, slice_size)
hash_to_slice(data, slice_size) == Slice(Sha3_512(data), 0, slice_size)

\* encrypt.rs / decrypt.rs derive_keys: SHA3-512(m || h) split at 32.
\* K, r: the copies returned; binding: the local of that name (the hash
\* output K || r) as the call leaves it.
derive_keys(m, h) ==
    Then(Sha3_512(m \o h), LAMBDA binding :
        [K |-> Slice(binding, 0, 32), r |-> Slice(binding, 32, 64),
         binding |-> binding])

\* A re-encoding that copies the key bytes without decoding them.
Reencode_copy(out, ek, i, k) == Slice(ek, 0, ENCODE_12 * k)

\* for i in 0..k: ek_reencoded = byte_decode_12(ek[i*384..(i+1)*384])?.byte_encode_12(..)
RECURSIVE Reencode(_, _, _, _)
Reencode(out, ek, i, k) ==
    IF i = k THEN out
    ELSE Then(byte_encode_12(
                  byte_decode_12(Slice(ek, i * ENCODE_12, (i + 1) * ENCODE_12)), out),
              LAMBDA out1 : Reencode(out1, ek, i + 1, k))

\* An encapsulation that fills m from the random source before it validates
\* the key, so that the source has advanced on every return.
mlkem_encaps_draw_first(P, ek, rng) ==
    LET k == ParameterSets[P].K
        ek_pke_size == ENCODE_12 * k
        early(res) == [res |-> res, rng |-> fill_bytes(rng).rng, m |-> <<>>, r |-> <<>>,
                       binding |-> <<>>]
    IN
    IF Len(ek) # ek_pke_size + 32 THEN early(ErrInvalidInput)
    ELSE IF \E i \in 0..(k - 1) :
                ~byte_decode_12_ok(Slice(ek, i * ENCODE_12, (i + 1) * ENCODE_12))
    THEN early(ErrInvalidInput)
    ELSE
    Then(Reencode(<<>>, ek, 0, k), LAMBDA ek_reencoded :
    IF ct_eq(ek_reencoded, Slice(ek, 0, ek_pke_size)) # 1
    THEN early(ErrInvalidInput)
    ELSE
    Then(fill_bytes(rng), LAMBDA draw :
    LET m == draw.bytes IN
    Then(hash_to_slice(ek, 32), LAMBDA h_ek :
    Then(derive_keys(m, h_ek), LAMBDA Kr :
    Then(k_pke_encrypt(P, ek, m, Kr.r), LAMBDA c :
    IF c.tag # "Ok"
    THEN [res |-> c, rng |-> draw.rng, m |-> m, r |-> Kr.r,
          binding |-> Kr.binding]
    ELSE [res |-> Ok([K |-> Kr.K, c |-> c.val]), rng |-> draw.rng,
          m |-> zeroize(m), r |-> zeroize(Kr.r), binding |-> Kr.binding])))))

\* mlkem_encaps::<P>(ek, rng).  res: the value returned; rng: the random
\* source afterwards; m, r: the locals of that name when the call returns
\* (<<>> when the call returns before they exist); binding: the hash buffer
\* of derive_keys when the call returns.
mlkem_encaps(P, ek, rng) ==
    LET k == ParameterSets[P].K
        ek_pke_size == ENCODE_12 * k
        early(res) == [res |-> res, rng |-> rng, m |-> <<>>, r |-> <<>>,
                       binding |-> <<>>]
    IN
    IF Len(ek) # ek_pke_size + 32 THEN early(ErrInvalidInput)
    ELSE IF \E i \in 0..(k - 1) :
                ~byte_decode_12_ok(Slice(ek, i * ENCODE_12, (i + 1) * ENCODE_12))
    THEN early(ErrInvalidInput)
    ELSE
    Then(Reencode(<<>>, ek, 0, k), LAMBDA ek_reencoded :
    IF ct_eq(ek_reencoded, Slice(ek, 0, ek_pke_size)) # 1
    THEN early(ErrInvalidInput)
    ELSE
    Then(fill_bytes(rng), LAMBDA draw :
    LET m == draw.bytes IN
    Then(hash_to_slice(ek, 32), LAMBDA h_ek :
    Then(derive_keys(m, h_ek), LAMBDA Kr :
    Then(k_pke_encrypt(P, ek, m, Kr.r), LAMBDA c :
    IF c.tag # "Ok"
    THEN [res |-> c, rng |-> draw.rng, m |-> m, r |-> Kr.r,
          binding |-> Kr.binding]
    ELSE [res |-> Ok([K |-> Kr.K, c |-> c.val]), rng |-> draw.rng,
          m |-> zeroize(m), r |-> zeroize(Kr.r), binding |-> Kr.binding])))))

\* An unpacking that takes the encryption key to be 384k bytes long, leaving
\* out the 32 bytes of rho.
unpack_dk_short_ek(P, dk) ==
    LET k == ParameterSets[P].K
        dk_pke_size == ENCODE_12 * k
        ek_pke_size == ENCODE_12 * k
    IN  [ dk_pke |-> Slice(dk, 0, dk_pke_size),
          ek_pke |-> Slice(dk, dk_pke_size, dk_pke_size + ek_pke_size),
          h      |-> Slice(dk, dk_pke_size + ek_pke_size, dk_pke_size + ek_pke_size + 32),
          z      |-> Slice(dk, dk_pke_size + ek_pke_size + 32,
                               dk_pke_size + ek_pke_size + 64) ]

\* decrypt.rs unpack_dk::<P>(dk)
unpack_dk(P, dk) ==
    LET k == ParameterSets[P].K
        dk_pke_size == ENCODE_12 * k
        ek_pke_size == ENCODE_12 * k + 32
    IN  [ dk_pke |-> Slice(dk, 0, dk_pke_size),
          ek_pke |-> Slice(dk, dk_pke_size, dk_pke_size + ek_pke_size),
          h      |-> Slice(dk, dk_pke_size + ek_pke_size, dk_pke_size + ek_pke_size + 32),
          z      |-> Slice(dk, dk_pke_size + ek_pke_size + 32,
                               dk_pke_size + ek_pke_size + 64) ]

\* decrypt.rs compute_k_bar: the first 32 bytes of SHA3-512(z || c)
compute_k_bar(z, c) == Slice(Sha3_512(z \o c), 0, 32)

\* A selection that takes the rejection key when the ciphertexts match.
implicit_reject_swapped(comparison, k_prime, k_bar) ==
    IF comparison # 1 THEN k_prime ELSE k_bar

\* A selection that never rejects.
implicit_reject_never(comparison, k_prime, k_bar) == k_prime

\* if comparison.unwrap_u8() != 1 { k_prime = k_bar; }
implicit_reject(comparison, k_prime, k_bar) ==
    IF comparison # 1 THEN k_bar ELSE k_prime

\* The statements executed by `if comparison.unwrap_u8() != 1 { k_prime =
\* k_bar; }`: the test, and the assignment when the test succeeds.
implicit_reject_steps(comparison) ==
    IF comparison # 1 THEN <<"comparison != 1", "k_prime = k_bar">>
    ELSE <<"comparison != 1">>

\* mlkem_decaps::<P>(c, dk).  res: the value returned; the other fields are
\* the locals of that name when the call returns (<<>> when the call returns
\* before they exist); k_prime_derived is K' as derive_keys returned it;
\* binding is the hash buffer of derive_keys when the call returns; steps is
\* the sequence of statements the selection between K' and K-bar executed.
mlkem_decaps(P, c, dk) ==
    LET none == <<>>
        early(res, m_prime, k_prime, r_prime, k_bar, binding) ==
            [ res |-> res, m_prime |-> m_prime, k_prime_derived |-> k_prime,
              r_prime |-> r_prime, k_bar |-> k_bar, c_prime |-> none,
              binding |-> binding, steps |-> none ]
    IN
    IF Len(dk) < 2 * ENCODE_12 * ParameterSets[P].K + 96
    THEN early(Panic, none, none, none, none, none)
    ELSE
    LET parts == unpack_dk(P, dk) IN
    Then(k_pke_decrypt(P, parts.dk_pke, c), LAMBDA dec :
    IF dec.tag # "Ok" THEN early(dec, none, none, none, none, none)
    ELSE
    LET m_prime == dec.val IN
    Then(derive_keys(m_prime, parts.h), LAMBDA Kr :
    Then(compute_k_bar(parts.z, c), LAMBDA k_bar :
    Then(k_pke_encrypt(P, parts.ek_pke, m_prime, Kr.r), LAMBDA enc :
    IF enc.tag # "Ok" THEN early(enc, m_prime, Kr.K, Kr.r, k_bar, Kr.binding)
    ELSE
    LET c_prime == enc.val
        comparison == ct_eq(c, c_prime)
        k_prime == implicit_reject(comparison, Kr.K, k_bar)
    IN  [ res |-> Ok(k_prime), m_prime |-> zeroize(m_prime),
          k_prime_derived |-> Kr.K, r_prime |-> zeroize(Kr.r), k_bar |-> k_bar,
          c_prime |-> c_prime, binding |-> Kr.binding,
          steps |-> implicit_reject_steps(comparison) ]))))

(***************************************************************************)
(* The sampling loops of k_pke_keygen and k_pke_encrypt, one sampler call  *)
(* at a time.  progress is the state of the loops: n, the nonce counter,   *)
(* and calls, the sampler calls made so far in order (vec: the vector      *)
(* filled, eta and nonce: the arguments, sample: what sample_poly_cbd      *)
(* returned, stored: the element stored, after .into() where the code      *)
(* converts).                                                              *)
(***************************************************************************)
SamplerCall(vec, eta, seed, nonce, into) ==
    Then(sample_poly_cbd(eta, seed, nonce), LAMBDA f :
        [vec |-> vec, eta |-> eta, nonce |-> nonce, sample |-> f,
         stored |-> IF into THEN ntt(f) ELSE f])

\* A key generation whose second loop starts again at nonce 0.
k_pke_keygen_sample_restarting(P, sigma, progress) ==
    LET k == ParameterSets[P].K
        done == Len(progress.calls)
    IN  [ n |-> progress.n + 1,
          calls |-> Append(progress.calls,
                        SamplerCall(IF done < k THEN "s" ELSE "e",
                                    ParameterSets[P].EtaOne, sigma, done % k, TRUE)) ]

\* k_pke_keygen, one pass of the body of the loop over s_hat (the first k
\* calls) or over e_hat (the next k):
\* *elem = sample_poly_cbd::<P::EtaOne>(sigma, n).into(); n += 1
k_pke_keygen_sample(P, sigma, progress) ==
    LET k == ParameterSets[P].K
        done == Len(progress.calls)
    IN  [ n |-> progress.n + 1,
          calls |-> Append(progress.calls,
                        SamplerCall(IF done < k THEN "s" ELSE "e",
                                    ParameterSets[P].EtaOne, sigma, progress.n, TRUE)) ]

\* k_pke_encrypt, one sampler call: the loop over r_hat (the first k calls,
\* converted with .into()), the loop over e_1 (the next k), then e2, after
\* which n is not advanced.  All three use P::EtaTwo.
k_pke_encrypt_sample(P, rand, progress) ==
    LET k == ParameterSets[P].K
        done == Len(progress.calls)
        eta2 == ParameterSets[P].EtaTwo
    IN  [ n |-> IF done < 2 * k THEN progress.n + 1 ELSE progress.n,
          calls |-> Append(progress.calls,
                        SamplerCall(IF done < k THEN "r"
                                    ELSE IF done < 2 * k THEN "e_1" ELSE "e2",
                                    eta2, rand, progress.n, done < k)) ]

(***************************************************************************)
(* Textual rendering of KEMPrivateKey: fips203/keygen.rs, impl fmt::Debug   *)
(* and impl fmt::Display.  A text is the sequence of its characters.        *)
(***************************************************************************)
Str_KEMPrivateKey == <<"K", "E", "M", "P", "r", "i", "v", "a", "t", "e", "K", "e", "y">>
Str_dk == <<"d", "k">>
Str_redacted == <<"<", "r", "e", "d", "a", "c", "t", "e", "d", ">">>

\* the decimal digit d as a character
Digit(d) == <<"0", "1", "2", "3", "4", "5", "6", "7", "8", "9">>[d + 1]

\* <u8 as fmt::Debug>::fmt: the decimal numeral of v
RECURSIVE u8_fmt(_)
u8_fmt(v) == IF v < 10 THEN <<Digit(v)>> ELSE u8_fmt(v \div 10) \o <<Digit(v % 10)>>

\* <Vec<u8> as fmt::Debug>::fmt: "[b0, b1, ...]"
RECURSIVE vec_u8_items(_, _)
vec_u8_items(bytes, at) ==
    IF at > Len(bytes) THEN <<>>
    ELSE (IF at = 1 THEN <<>> ELSE <<",", " ">>) \o u8_fmt(bytes[at])
         \o vec_u8_items(bytes, at + 1)

vec_u8_fmt(bytes) == (<<"[">> \o vec_u8_items(bytes, 1)) \o <<"]">>

\* <str as fmt::Debug>::fmt for a text without characters to escape: the text
\* between double quotes
str_fmt_Debug(text) == (<<"\"">> \o text) \o <<"\"">>

\* f.debug_struct(name).field(field, value).finish() under {:?}:
\* name { field: value }, value rendered by its own Debug
debug_struct(name, field, value) ==
    name \o <<" ", "{", " ">> \o field \o <<":", " ">> \o value \o <<" ", "}">>

\* What #[derive(Debug)] would render: the bytes of dk.
KEMPrivateKey_Debug_fmt_derived(dk) ==
    debug_struct(Str_KEMPrivateKey, Str_dk, vec_u8_fmt(dk))

\* impl fmt::Debug for KEMPrivateKey: the field value is the &str "<redacted>"
KEMPrivateKey_Debug_fmt(dk) ==
    debug_struct(Str_KEMPrivateKey, Str_dk, str_fmt_Debug(Str_redacted))

\* impl fmt::Display for KEMPrivateKey:
\* write!(f, "KEMPrivateKey {{ dk: <redacted> }}")
KEMPrivateKey_Display_fmt(dk) ==
    <<"K", "E", "M", "P", "r", "i", "v", "a", "t", "e", "K", "e", "y", " ", "{", " ", "d", "k", ":", " ", "<", "r", "e", "d", "a", "c", "t", "e", "d", ">", " ", "}">>

(***************************************************************************)
(* The state machine: one party generates a key pair, a second party        *)
(* encapsulates to the encapsulation key it received, the first party       *)
(* decapsulates the ciphertext it received.  Both the key and the           *)
(* ciphertext may be altered in transit.                                    *)
(***************************************************************************)
VARIABLES
    pc,     \* "start", "keyed", "encapsulated", "decapsulated"
    P,      \* the parameter set the three calls are instantiated with
    rng,    \* the random source: [seed, drawn]
    key,    \* what ml_kem_keygen returned (ek, dk), used (seed, z) and left
            \* behind in its buffers (z_buf, binding)
    ekIn,   \* the encapsulation key handed to mlkem_encaps
    enc,    \* what mlkem_encaps returned, and its locals on return
    cIn,    \* the ciphertext handed to mlkem_decaps
    dec,    \* what mlkem_decaps returned, and its locals on return
    input,  \* the arguments of the function under examination (<<>>: none)
    output  \* what that function returned (<<>>: nothing yet)

kemVars == <<pc, P, rng, key, ekIn, enc, cIn, dec>>
vars == <<pc, P, rng, key, ekIn, enc, cIn, dec, input, output>>

MaxFlip == 2

None == [tag |-> "None", val |-> <<>>]
NoEnc == [res |-> None, rng |-> <<>>, m |-> <<>>, r |-> <<>>, binding |-> <<>>]
NoDec == [res |-> None, m_prime |-> <<>>, k_prime_derived |-> <<>>,
          r_prime |-> <<>>, k_bar |-> <<>>, c_prime |-> <<>>, binding |-> <<>>,
          steps |-> <<>>]
NoKey == [ek |-> <<>>, dk |-> <<>>, seed |-> <<>>, z |-> <<>>,
          z_buf |-> <<>>, binding |-> <<>>, dk_pke |-> <<>>]

Init ==
    /\ pc = "start"
    /\ P \in ParameterSetNames
    /\ rng \in [seed : 0..MaxRngSeed, drawn : {0}]
    /\ key = NoKey
    /\ ekIn = <<>>
    /\ enc = NoEnc
    /\ cIn = <<>>
    /\ dec = NoDec
    /\ input = <<>>
    /\ output = <<>>

KeyGen ==
    /\ pc = "start"
    /\ \E r \in {ml_kem_keygen(P, rng)} :
        /\ key' = [ek |-> r.ek, dk |-> r.dk, seed |-> r.seed, z |-> r.z,
                   z_buf |-> r.z_buf, binding |-> r.binding,
                   dk_pke |-> r.dk_pke]
        /\ rng' = r.rng
        /\ ekIn' = r.ek
    /\ pc' = "keyed"
    /\ UNCHANGED <<P, enc, cIn, dec, input, output>>

\* the byte string b with byte number i (from 0) replaced by v
SetByte(b, i, v) == [b EXCEPT ![i + 1] = v]

\* the byte string b with the 12-bit value number pos replaced by val, in the
\* packing of byte_encode_12
SetValue12(b, pos, val) ==
    LET at == 3 * (pos \div 2)
    IN  IF pos % 2 = 0
        THEN SetByte(SetByte(b, at, val % 256),
                     at + 1, ((b[at + 2] \div 16) * 16) + (val \div 256))
        ELSE SetByte(SetByte(b, at + 1, ((val % 16) * 16) + (b[at + 2] % 16)),
                     at + 2, (val \div 16))

\* the 12-bit value number pos packed in b
Value12(b, pos) ==
    LET at == 3 * (pos \div 2)
    IN  IF pos % 2 = 0
        THEN b[at + 1] + 256 * (b[at + 2] % 16)
        ELSE (b[at + 2] \div 16) + 16 * b[at + 3]

\* the well-formed keys whose first byte is overwritten: the key as generated,
\* and that key with its first 12-bit value replaced by q - 1
ValidKeys == {key.ek, SetValue12(key.ek, 0, q - 1)}

\* The key is altered in transit: its first byte becomes 0xFF.
SetEkFirstByte ==
    /\ pc = "keyed" /\ ekIn \in ValidKeys
    /\ ekIn' = SetByte(ekIn, 0, 255)
    /\ UNCHANGED <<pc, P, rng, key, enc, cIn, dec, input, output>>

\* The key is altered in transit: one packed 12-bit value is replaced.
SetEkValue ==
    /\ pc = "keyed" /\ ekIn = key.ek
    /\ \E pos \in {0, n * ParameterSets[P].K - 1}, val \in {q - 1, q, MASK_12} :
        ekIn' = SetValue12(ekIn, pos, val)
    /\ UNCHANGED <<pc, P, rng, key, enc, cIn, dec, input, output>>

\* The key is altered in transit: it loses its last byte or gains one.
ResizeEk ==
    /\ pc = "keyed" /\ ekIn = key.ek
    /\ \/ ekIn' = SubSeq(ekIn, 1, Len(ekIn) - 1)
       \/ ekIn' = Append(ekIn, 0)
    /\ UNCHANGED <<pc, P, rng, key, enc, cIn, dec, input, output>>

Encaps ==
    /\ pc = "keyed"
    /\ \E r \in {mlkem_encaps(P, ekIn, rng)} :
        /\ enc' = r
        /\ rng' = r.rng
        /\ cIn' = IF r.res.tag = "Ok" THEN r.res.val.c ELSE <<>>
    /\ pc' = "encapsulated"
    /\ UNCHANGED <<P, key, ekIn, dec, input, output>>

\* the byte string b with bit number i (from 0) inverted
FlipBit(b, i) ==
    LET old == b[(i \div 8) + 1]
        bit == Pow2(i % 8)
    IN  SetByte(b, i \div 8, IF (old \div bit) % 2 = 1 THEN old - bit ELSE old + bit)

\* the bit positions at which a ciphertext of len bytes is altered
FlipPositions(len) == {((f * 2053) % (8 * len)) : f \in 0..MaxFlip} \cup {8 * len - 1}

Untouched == enc.res.tag = "Ok" /\ ekIn = key.ek /\ cIn = enc.res.val.c

\* The ciphertext is altered in transit: one bit is inverted.
FlipCiphertextBit ==
    /\ pc = "encapsulated" /\ Untouched
    /\ \E i \in FlipPositions(Len(cIn)) : cIn' = FlipBit(cIn, i)
    /\ UNCHANGED <<pc, P, rng, key, ekIn, enc, dec, input, output>>

\* the lengths a ciphertext is cut or padded to
ResizeLengths(len) ==
    LET c1_size == 32 * ParameterSets[P].Du * ParameterSets[P].K
    IN  {0, c1_size - 1, len - 1, len + 1}

\* The ciphertext is altered in transit: it is cut, or padded with zeros.
ResizeCiphertext ==
    /\ pc = "encapsulated" /\ Untouched
    /\ \E len \in ResizeLengths(Len(cIn)) :
        cIn' = IF len <= Len(cIn) THEN SubSeq(cIn, 1, len)
               ELSE cIn \o Zeros(len - Len(cIn))
    /\ UNCHANGED <<pc, P, rng, key, ekIn, enc, dec, input, output>>

Decaps ==
    /\ pc = "encapsulated"
    /\ enc.res.tag = "Ok"
    /\ dec' = mlkem_decaps(P, cIn, key.dk)
    /\ pc' = "decapsulated"
    /\ UNCHANGED <<P, rng, key, ekIn, enc, cIn, input, output>>

Next ==
    \/ KeyGen
    \/ SetEkFirstByte
    \/ SetEkValue
    \/ ResizeEk
    \/ Encaps
    \/ FlipCiphertextBit
    \/ ResizeCiphertext
    \/ Decaps

Spec == Init /\ [][Next]_vars

(***************************************************************************)
(* The functions examined on their own: the key encapsulation machine is   *)
(* idle, the arguments are drawn from a bounded set, and each action       *)
(* applies one function to them.                                           *)
(***************************************************************************)
KemIdle ==
    /\ pc = "idle"
    /\ P = "KEM_512"
    /\ rng = [seed |-> 0, drawn |-> 0]
    /\ key = NoKey
    /\ ekIn = <<>>
    /\ enc = NoEnc
    /\ cIn = <<>>
    /\ dec = NoDec

\* all byte strings of length len over the byte values vals
ByteStrings(len, vals) == [1..len -> vals]

\* Rendering a private key: format!("{:?}", dk) and format!("{}", dk).
MaxDkLen == 3
DkByteValues == {0, 7, 60, 255}

RenderInit ==
    /\ KemIdle
    /\ input \in [dk : UNION {ByteStrings(len, DkByteValues) : len \in 0..MaxDkLen}]
    /\ output = [debug |-> <<>>, display |-> <<>>]

FormatDebug ==
    /\ output.debug = <<>>
    /\ output' = [output EXCEPT !.debug = KEMPrivateKey_Debug_fmt(input.dk)]
    /\ UNCHANGED <<kemVars, input>>

FormatDisplay ==
    /\ output.display = <<>>
    /\ output' = [output EXCEPT !.display = KEMPrivateKey_Display_fmt(input.dk)]
    /\ UNCHANGED <<kemVars, input>>

RenderNext == FormatDebug \/ FormatDisplay

RenderSpec == RenderInit /\ [][RenderNext]_vars

\* Field arithmetic and compression: math/field_element.rs.  The left operand
\* and the values compressed range over the whole field, the right operand
\* over the values below.
MaxFieldSample == 3
FieldSamples ==
    {0, 1, 2, Zeta, q \div 2, q \div 2 + 1, NInv, q - 2, q - 1}
        \cup {(s * 1103 + 29) % q : s \in 1..MaxFieldSample}

\* the compression widths of the parameter sets (dv, du and 1)
CompressionWidths == {1, 4, 5, 10, 11}

FieldInit ==
    /\ KemIdle
    /\ output = <<>>
    /\ \/ input \in [op : {"arith"}, a : 0..(q - 1), b : FieldSamples]
       \/ input \in [op : {"compress"}, d : CompressionWidths, x : 0..(q - 1)]
       \/ input \in UNION {[op : {"decompress"}, d : {d}, y : 0..(Pow2(d) - 1)] :
                               d \in CompressionWidths}

FieldAdd ==
    /\ input.op = "arith" /\ output = <<>>
    /\ output' = [fn |-> "add", val |-> FAdd(input.a, input.b)]
    /\ UNCHANGED <<kemVars, input>>

FieldSub ==
    /\ input.op = "arith" /\ output = <<>>
    /\ output' = [fn |-> "sub", val |-> FSub(input.a, input.b)]
    /\ UNCHANGED <<kemVars, input>>

FieldMul ==
    /\ input.op = "arith" /\ output = <<>>
    /\ output' = [fn |-> "mul", val |-> FMul(input.a, input.b)]
    /\ UNCHANGED <<kemVars, input>>

FieldCompress ==
    /\ input.op = "compress" /\ output = <<>>
    /\ output' = [fn |-> "compress", val |-> compress(input.d, input.x)]
    /\ UNCHANGED <<kemVars, input>>

FieldDecompress ==
    /\ input.op = "decompress" /\ output = <<>>
    /\ output' = [fn |-> "decompress", val |-> decompress(input.d, input.y)]
    /\ UNCHANGED <<kemVars, input>>

\* the decompressed value is compressed again
FieldRecompress ==
    /\ output # <<>> /\ output.fn = "decompress"
    /\ output' = [fn |-> "recompress", val |-> compress(input.d, output.val)]
    /\ UNCHANGED <<kemVars, input>>

FieldNext ==
    \/ FieldAdd
    \/ FieldSub
    \/ FieldMul
    \/ FieldCompress
    \/ FieldDecompress
    \/ FieldRecompress

FieldSpec == FieldInit /\ [][FieldNext]_vars

\* Byte encoding of ring elements: math/encoding.rs.  For each width the
\* vectors encoded are the vector of the largest value and MaxVecSeed
\* scattered vectors below the limit 2^d (and, for d = 12, below q as well).
MaxVecSeed == 5
EncodingWidths == {1, 4, 5, 10, 11, 12}

\* coefficient number idx of the vector drawn for seed with values below limit
Scatter(seed, idx, limit) ==
    IF seed = 0 THEN limit - 1
    ELSE (seed * 7919 + idx * (2 * seed + 1) * 389 + idx * idx * 31) % limit

SampleVector(seed, limit) == Eval([idx \in 0..(n - 1) |-> Scatter(seed, idx, limit)])

ValueLimits(d) == IF Pow2(d) > q THEN {q, Pow2(d)} ELSE {Pow2(d)}

EncodeInit ==
    /\ KemIdle
    /\ output = <<>>
    /\ \E d \in EncodingWidths, seed \in 0..MaxVecSeed :
         \E limit \in ValueLimits(d) :
            input = [d |-> d, vals |-> SampleVector(seed, limit)]

\* Encode::<D>::encode for RingElement
ByteEncode ==
    /\ output = <<>>
    /\ output' = [fn |-> "byte_encode", bytes |-> byte_encode(input.d, input.vals)]
    /\ UNCHANGED <<kemVars, input>>

\* Encode::<D>::decode for RingElement, applied to the bytes just encoded
ByteDecode ==
    /\ output # <<>> /\ output.fn = "byte_encode"
    /\ output' = [fn |-> "byte_decode", bytes |-> output.bytes,
                  vals |-> byte_decode(input.d, output.bytes)]
    /\ UNCHANGED <<kemVars, input>>

\* Encode::<D>::encode for NttElement
NttEncode ==
    /\ output = <<>>
    /\ output' = [fn |-> "NttElement::encode",
                  bytes |-> NttElement_encode(input.d, input.vals)]
    /\ UNCHANGED <<kemVars, input>>

\* Encode::<D>::decode for NttElement, applied to the bytes just encoded
NttDecode ==
    /\ output # <<>> /\ output.fn = "NttElement::encode"
    /\ output' = [fn |-> "NttElement::decode", bytes |-> output.bytes,
                  vals |-> NttElement_decode(input.d, output.bytes)]
    /\ UNCHANGED <<kemVars, input>>

EncodeNext == ByteEncode \/ ByteDecode \/ NttEncode \/ NttDecode

EncodeSpec == EncodeInit /\ [][EncodeNext]_vars

\* The number-theoretic transform: math/ntt_element.rs.  The ring elements
\* transformed are the vector of q - 1 and MaxNttSeed scattered vectors; the
\* pairs multiplied are drawn from the first MaxMulSeed + 1 of them.
MaxNttSeed == 29
MaxMulSeed == 2

NttInit ==
    /\ KemIdle
    /\ output = <<>>
    /\ \/ \E seed \in 0..MaxNttSeed :
            input = [op |-> "transform", f |-> SampleVector(seed, q)]
       \/ \E seed1 \in 0..MaxMulSeed, seed2 \in 0..MaxMulSeed :
            input = [op |-> "multiply", f |-> SampleVector(seed1, q),
                     g |-> SampleVector(seed2, q)]

\* From<RingElement> for NttElement: the forward transform of f
Ntt ==
    /\ input.op = "transform" /\ output = <<>>
    /\ output' = [fn |-> "ntt", f_hat |-> ntt(input.f)]
    /\ UNCHANGED <<kemVars, input>>

\* ntt_inv applied to the transform just computed
NttInv ==
    /\ output # <<>> /\ output.fn = "ntt"
    /\ output' = [fn |-> "ntt_inv", f_hat |-> output.f_hat, f |-> ntt_inv(output.f_hat)]
    /\ UNCHANGED <<kemVars, input>>

\* the forward transforms of both factors
NttFactors ==
    /\ input.op = "multiply" /\ output = <<>>
    /\ output' = [fn |-> "ntt_factors", f_hat |-> ntt(input.f), g_hat |-> ntt(input.g)]
    /\ UNCHANGED <<kemVars, input>>

\* impl Mul for NttElement: multiply_ntts on the two transforms
MultiplyNtts ==
    /\ output # <<>> /\ output.fn = "ntt_factors"
    /\ output' = [fn |-> "multiply_ntts", f_hat |-> output.f_hat, g_hat |-> output.g_hat,
                  h_hat |-> multiply_ntts(output.f_hat, output.g_hat)]
    /\ UNCHANGED <<kemVars, input>>

NttNext == Ntt \/ NttInv \/ NttFactors \/ MultiplyNtts

NttSpec == NttInit /\ [][NttNext]_vars

\* The sampling loops of k_pke_keygen and k_pke_encrypt, one sampler call at a
\* time.
MaxSampleSeed == 2

SampleInit ==
    /\ KemIdle
    /\ output = <<>>
    /\ input \in [fn : {"k_pke_keygen", "k_pke_encrypt"}, P : ParameterSetNames,
                  seed : {RngBlock(s, 0) : s \in 0..MaxSampleSeed}]

\* k_pke_keygen: (rho, sigma) <- G(d), n = 0
KeygenExpandSeed ==
    /\ input.fn = "k_pke_keygen" /\ output = <<>>
    /\ \E b \in {Sha3_512(input.seed)} :
          output' = [rho |-> Slice(b, 0, 32), sigma |-> Slice(b, 32, 64),
                     n |-> 0, calls |-> <<>>]
    /\ UNCHANGED <<kemVars, input>>

KeygenSample ==
    /\ input.fn = "k_pke_keygen" /\ output # <<>>
    /\ Len(output.calls) < 2 * ParameterSets[input.P].K
    /\ \E next \in {k_pke_keygen_sample(input.P, output.sigma,
                                         [n |-> output.n, calls |-> output.calls])} :
          output' = [output EXCEPT !.n = next.n, !.calls = next.calls]
    /\ UNCHANGED <<kemVars, input>>

\* k_pke_encrypt: n = 0 (rand is the argument itself)
EncryptStart ==
    /\ input.fn = "k_pke_encrypt" /\ output = <<>>
    /\ output' = [n |-> 0, calls |-> <<>>]
    /\ UNCHANGED <<kemVars, input>>

EncryptSample ==
    /\ input.fn = "k_pke_encrypt" /\ output # <<>>
    /\ Len(output.calls) < 2 * ParameterSets[input.P].K + 1
    /\ output' = k_pke_encrypt_sample(input.P, input.seed, output)
    /\ UNCHANGED <<kemVars, input>>

SampleNext == KeygenExpandSeed \/ KeygenSample \/ EncryptStart \/ EncryptSample

SampleSpec == SampleInit /\ [][SampleNext]_vars

\* The matrix of k_pke_keygen and the matrix of k_pke_encrypt, generated from
\* the same rho.
MaxRhoSeed == 8

MatrixInit ==
    /\ KemIdle
    /\ input \in [P : ParameterSetNames, rho : {RngBlock(s, 1) : s \in 0..MaxRhoSeed}]
    /\ output = [a_hat |-> <<>>, a_hat_transpose |-> <<>>]

KeygenMatrix ==
    /\ output.a_hat = <<>>
    /\ output' = [output EXCEPT !.a_hat = keygen_a_hat(ParameterSets[input.P].K, input.rho)]
    /\ UNCHANGED <<kemVars, input>>

EncryptMatrix ==
    /\ output.a_hat_transpose = <<>>
    /\ output' = [output EXCEPT !.a_hat_transpose =
                      encrypt_a_hat_transpose(ParameterSets[input.P].K, input.rho)]
    /\ UNCHANGED <<kemVars, input>>

MatrixNext == KeygenMatrix \/ EncryptMatrix

MatrixSpec == MatrixInit /\ [][MatrixNext]_vars

\* NttElement::byte_decode_12 and FieldElement::check_reduced.  The byte
\* strings decoded are encodings of reduced vectors, the same with one 12-bit
\* value replaced, and the same one byte short or long.
MaxDecodeSeed == 3
Replaced12 == {q - 1, q, q + 1, MASK_12}

DecodeInputs(seed) ==
    LET b == byte_encode_12(SampleVector(seed, q), <<>>)
    IN  {b, SubSeq(b, 1, Len(b) - 1), Append(b, 0)}
            \cup {SetValue12(b, pos, val) : pos \in {0, 1, n - 1}, val \in Replaced12}

Decode12Init ==
    /\ KemIdle
    /\ output = <<>>
    /\ \/ input \in [fn : {"byte_decode_12"},
                      b : UNION {DecodeInputs(seed) : seed \in 0..MaxDecodeSeed}]
       \/ input \in [fn : {"check_reduced"}, val : 0..(2 * MASK_12 + 1)]

Decode12 ==
    /\ input.fn = "byte_decode_12" /\ output = <<>>
    /\ output' = IF byte_decode_12_ok(input.b) THEN Ok(byte_decode_12(input.b))
                 ELSE [tag |-> "Err", val |-> <<>>]
    /\ UNCHANGED <<kemVars, input>>

\* FieldElement(val).check_reduced()
CheckReduced ==
    /\ input.fn = "check_reduced" /\ output = <<>>
    /\ output' = [tag |-> IF check_reduced(input.val) THEN "Ok" ELSE "Err", val |-> <<>>]
    /\ UNCHANGED <<kemVars, input>>

Decode12Next == Decode12 \/ CheckReduced

Decode12Spec == Decode12Init /\ [][Decode12Next]_vars

(***************************************************************************)
(* Properties.                                                             *)
(***************************************************************************)
\* res is Err(KemError::InvalidInput)
IsInvalidInput(res) == res.tag = "Err" /\ res.val = "InvalidInput"

\* res is Ok(v) for the given v
IsOk(res, v) == res.tag = "Ok" /\ res.val = v

\* the length of a ciphertext of parameter set P: 32 * (du * k + dv)
CiphertextSize ==
    32 * (ParameterSets[P].Du * ParameterSets[P].K + ParameterSets[P].Dv)

\* a and b have the same length and differ in exactly one bit
OneBitApart(a, b) ==
    /\ Len(a) = Len(b)
    /\ \E at \in 1..Len(a) :
        /\ a[at] # b[at]
        /\ \A other \in 1..Len(a) : other # at => a[other] = b[other]
        /\ \E e \in 0..7 : a[at] = FlipBit(b, 8 * (at - 1) + e)[at]

\* ek has the wrong length or packs a 12-bit value that is not below q
BadKey(ek) ==
    \/ Len(ek) # ENCODE_12 * ParameterSets[P].K + 32
    \/ \E pos \in 0..(n * ParameterSets[P].K - 1) : Value12(ek, pos) >= q

\* the key received by mlkem_encaps is a well-formed key with its first byte
\* overwritten by 0xFF
FirstByteOverwritten == \E base \in ValidKeys : ekIn = SetByte(base, 0, 255)

\* C1: for every parameter set and random stream, keygen, then encaps on the
\* generated ek, then decaps on the returned c with the generated dk, returns
\* Ok with a 32-byte value equal to the K that encaps returned.
C1_RoundTrip ==
    (pc = "decapsulated" /\ ekIn = key.ek /\ cIn = enc.res.val.c)
        => /\ dec.res.tag = "Ok"
           /\ Len(dec.res.val) = 32
           /\ dec.res.val = enc.res.val.K

C1_Witness ==
    /\ pc = "decapsulated" /\ ekIn = key.ek /\ cIn = enc.res.val.c
    /\ IsOk(dec.res, enc.res.val.K)
    /\ Len(enc.res.val.K) = 32

\* C2: for a well-formed dk and a ciphertext of the correct length, decaps
\* returns Ok with a 32-byte value, which is K' exactly when c equals the
\* re-encryption c' and K-bar in every other case; a failed re-encryption
\* check never surfaces as an error.
C2_ImplicitRejection ==
    (pc = "decapsulated" /\ Len(cIn) = CiphertextSize)
        => /\ dec.res.tag = "Ok"
           /\ Len(dec.res.val) = 32
           /\ dec.res.val = IF cIn = dec.c_prime THEN dec.k_prime_derived
                            ELSE dec.k_bar

C2_Witness ==
    /\ pc = "decapsulated" /\ Len(cIn) = CiphertextSize
    /\ cIn # dec.c_prime
    /\ dec.k_bar # dec.k_prime_derived
    /\ IsOk(dec.res, dec.k_bar)

\* C3: for an honestly generated key pair and (K, c) from encaps, decaps of c
\* with exactly one bit flipped returns Ok with a 32-byte value different
\* from K.
C3_BitFlipRejected ==
    (pc = "decapsulated" /\ ekIn = key.ek /\ OneBitApart(cIn, enc.res.val.c))
        => /\ dec.res.tag = "Ok"
           /\ Len(dec.res.val) = 32
           /\ dec.res.val # enc.res.val.K

C3_Witness ==
    /\ pc = "decapsulated" /\ ekIn = key.ek /\ OneBitApart(cIn, enc.res.val.c)
    /\ IsOk(dec.res, dec.k_bar)
    /\ dec.k_bar # enc.res.val.K

\* C4: for a well-formed dk and a ciphertext of any length, decaps ends with
\* Err(InvalidInput) or with Ok and a 32-byte value; it never panics.
C4_DecapsNeverPanics ==
    pc = "decapsulated"
        => \/ IsInvalidInput(dec.res)
           \/ dec.res.tag = "Ok" /\ Len(dec.res.val) = 32

\* C5: encaps returns Err(InvalidInput) exactly when ek has the wrong length
\* or packs a 12-bit value >= q in its first 384 * k bytes; for every other
\* ek it returns Ok((K, c)).
C5_EncapsValidatesKey ==
    pc = "encapsulated"
        => IF BadKey(ekIn) THEN IsInvalidInput(enc.res)
           ELSE enc.res.tag = "Ok"

C5_Witness ==
    /\ pc = "encapsulated"
    /\ Len(ekIn) = ENCODE_12 * ParameterSets[P].K + 32
    /\ Value12(ekIn, n * ParameterSets[P].K - 1) = q
    /\ IsInvalidInput(enc.res)

\* C6 as stated: a generated ek with its first byte replaced by 0xFF makes
\* encaps return Err(InvalidInput).
C6_FirstByteAlwaysRejected ==
    (pc = "encapsulated" /\ ekIn = SetByte(key.ek, 0, 255))
        => IsInvalidInput(enc.res)

\* C6, amended: a well-formed ek with its first byte replaced by 0xFF makes
\* encaps return Err(InvalidInput) exactly when the low four bits of its
\* second byte are 13 or more, that is when the first packed 12-bit value,
\* 0xFF + 256 * (ek[1] mod 16), is >= q; otherwise encaps returns Ok.
C6_FirstByteRejectedWhenNotBelowQ ==
    (pc = "encapsulated" /\ FirstByteOverwritten)
        => IF ekIn[2] % 16 >= 13 THEN IsInvalidInput(enc.res)
           ELSE enc.res.tag = "Ok"

C6_Witness ==
    /\ pc = "encapsulated" /\ FirstByteOverwritten
    /\ ekIn[2] % 16 >= 13
    /\ IsInvalidInput(enc.res)

\* C7: keygen returns ek of 384k + 32 bytes and dk of 768k + 96 bytes
\* (800/1632, 1184/2400, 1568/3168 for k = 2, 3, 4); encaps on a valid ek
\* returns K of 32 bytes and c of 32 * (du * k + dv) bytes (768, 1088, 1568).
C7_Sizes ==
    LET k == ParameterSets[P].K
        table == CASE P = "KEM_512"  -> <<2, 800, 1632, 768>>
                   [] P = "KEM_768"  -> <<3, 1184, 2400, 1088>>
                   [] P = "KEM_1024" -> <<4, 1568, 3168, 1568>>
    IN  /\ pc # "start"
            => /\ Len(key.ek) = 384 * k + 32
               /\ Len(key.dk) = 768 * k + 96
               /\ <<k, Len(key.ek), Len(key.dk)>> = SubSeq(table, 1, 3)
        /\ (pc = "encapsulated" /\ ~BadKey(ekIn))
            => /\ enc.res.tag = "Ok"
               /\ Len(enc.res.val.K) = 32
               /\ Len(enc.res.val.c) = CiphertextSize
               /\ Len(enc.res.val.c) = table[4]

C7_Witness ==
    /\ pc = "encapsulated" /\ P = "KEM_1024" /\ ekIn = key.ek
    /\ Len(key.ek) = 1568 /\ Len(key.dk) = 3168
    /\ enc.res.tag = "Ok"
    /\ Len(enc.res.val.K) = 32 /\ Len(enc.res.val.c) = 1568

\* C8: keygen draws two separate 32-byte values d and z from the random
\* source; the seed passed to k_pke_keygen is a different draw from the z
\* stored in the last 32 bytes of dk.
C8_TwoSeparateDraws ==
    pc = "keyed"
        => /\ rng.drawn = 2
           /\ key.seed # key.z
           /\ key.z = Slice(key.dk, Len(key.dk) - 32, Len(key.dk))

\* C9: bytes [768k + 32, 768k + 64) of the dk that keygen returns are the
\* SHA3-256 digest of ek.
C9_HashIsSha3_256 ==
    pc # "start"
        => LET k == ParameterSets[P].K
           IN  Slice(key.dk, 768 * k + 32, 768 * k + 64) = Sha3_256(key.ek)

\* C10: the implicit-rejection value that decaps computes is SHAKE-256 of
\* z || c squeezed to 32 bytes, z being the last 32 bytes of dk and c the
\* received ciphertext.
C10_KBarIsShake256 ==
    (pc = "decapsulated" /\ dec.k_bar # <<>>)
        => dec.k_bar =
             Shake256Read(Slice(key.dk, Len(key.dk) - 32, Len(key.dk)) \o cIn, 0, 32)


\* every byte of buf is zero
AllZero(buf) == \A i \in 1..Len(buf) : buf[i] = 0

\* the second half (bytes 32..63) of a 64-byte hash buffer; empty when the
\* buffer never existed
SecondHalf(buf) == IF Len(buf) < 64 THEN <<>> ELSE Slice(buf, 32, 64)

\* C11: when ml_kem_keygen, mlkem_encaps or mlkem_decaps has returned, every
\* buffer that held secret intermediate material is all zero: the seed z and
\* the sigma half of the G(d) output in key generation; m, r and the r half
\* of the derive_keys hash buffer in encapsulation; m', r' and the r' half of
\* the derive_keys hash buffer in decapsulation.
C11_SecretBuffersZeroed ==
    /\ pc # "start" =>
          /\ AllZero(key.z_buf)
          /\ AllZero(SecondHalf(key.binding))
    /\ enc.res.tag # "None" =>
          /\ AllZero(enc.m)
          /\ AllZero(enc.r)
          /\ AllZero(SecondHalf(enc.binding))
    /\ dec.res.tag # "None" =>
          /\ AllZero(dec.m_prime)
          /\ AllZero(dec.r_prime)
          /\ AllZero(SecondHalf(dec.binding))


\* the text pat occurs in the text
Contains(text, pat) ==
    \E at \in 0..(Len(text) - Len(pat)) : SubSeq(text, at + 1, at + Len(pat)) = pat

Text_Debug == <<"K", "E", "M", "P", "r", "i", "v", "a", "t", "e", "K", "e", "y", " ", "{", " ", "d", "k", ":", " ", "\"", "<", "r", "e", "d", "a", "c", "t", "e", "d", ">", "\"", " ", "}">>
Text_Display == <<"K", "E", "M", "P", "r", "i", "v", "a", "t", "e", "K", "e", "y", " ", "{", " ", "d", "k", ":", " ", "<", "r", "e", "d", "a", "c", "t", "e", "d", ">", " ", "}">>

\* text is a rendering that shows "<redacted>" and not the bytes of dk
Redacted(text, dk) ==
    /\ Contains(text, Str_redacted)
    /\ ~Contains(text, vec_u8_fmt(dk))

\* C12 (as stated): for every dk the Debug rendering and the Display rendering
\* are one and the same text, which contains "<redacted>" and not the key
\* bytes.
C12_SameFixedText ==
    (output.debug # <<>> /\ output.display # <<>>) =>
        /\ output.debug = output.display
        /\ Redacted(output.debug, input.dk)

\* C12 (amended): for every dk the Debug rendering is the fixed text
\* KEMPrivateKey { dk: "<redacted>" } and the Display rendering is the fixed
\* text KEMPrivateKey { dk: <redacted> }; each contains "<redacted>" and
\* neither contains the key bytes.
C12_FixedRedactedTexts ==
    /\ output.debug # <<>> =>
          output.debug = Text_Debug /\ Redacted(output.debug, input.dk)
    /\ output.display # <<>> =>
          output.display = Text_Display /\ Redacted(output.display, input.dk)

C12_Witness ==
    /\ Len(input.dk) >= 2
    /\ input.dk[1] # input.dk[2]
    /\ output.debug # <<>>
    /\ output.display # <<>>


\* the function under examination has returned from fn
Returned(fn) == output # <<>> /\ output.fn = fn

\* C14: for a, b in [0, q) the sum, difference and product of field elements
\* are exactly (a + b) mod q, (a - b) mod q and (a * b) mod q.
C14_FieldArithmeticExact ==
    /\ Returned("add") => output.val = (input.a + input.b) % q
    /\ Returned("sub") => output.val = (input.a - input.b) % q
    /\ Returned("mul") => output.val = (input.a * input.b) % q

\* a product whose Barrett quotient is one short, so that the remainder
\* needs the conditional subtraction
C14_Witness ==
    /\ Returned("mul")
    /\ BarrettQuotient(input.a * input.b) # (input.a * input.b) \div q
    /\ output.val = (input.a * input.b) % q

\* C15: for d in {1, 4, 5, 10, 11} and y in [0, 2^d), compressing the
\* decompression of y gives y back.
C15_CompressAfterDecompress ==
    Returned("recompress") => output.val = input.y

C15_Witness ==
    /\ Returned("recompress")
    /\ input.d = 11
    /\ input.y = Pow2(11) - 1
    /\ output.val = input.y

\* num / den rounded to the nearest integer, halves rounded up
RoundHalfUp(num, den) == (2 * num + den) \div (2 * den)

\* C16: for d in {1, 4, 5, 10, 11}, compress_d(x) for x in [0, q) is
\* (2^d * x) / q rounded half up, modulo 2^d, and decompress_d(y) for y in
\* [0, 2^d) is (q * y) / 2^d rounded half up.
C16_CompressionRounds ==
    /\ Returned("compress") =>
          output.val = RoundHalfUp(Pow2(input.d) * input.x, q) % Pow2(input.d)
    /\ Returned("decompress") =>
          output.val = RoundHalfUp(q * input.y, Pow2(input.d))

\* a value that rounds up to 2^d and wraps to zero
C16_Witness ==
    /\ Returned("compress")
    /\ input.x = q - 1
    /\ RoundHalfUp(Pow2(input.d) * input.x, q) = Pow2(input.d)
    /\ output.val = 0


\* every coefficient of vals is below limit
AllBelow(vals, limit) == \A idx \in 0..(n - 1) : vals[idx] < limit

\* C17 (as stated): for d in {1, 4, 5, 10, 11, 12} and a vector whose
\* coefficients are all below 2^d, decoding the encoding gives the vector back.
C17_RoundTripBelowTwoToD ==
    (Returned("byte_decode") /\ AllBelow(input.vals, Pow2(input.d))) =>
        output.vals = input.vals

\* C17 (amended): for d in {1, 4, 5, 10, 11, 12} and a vector whose
\* coefficients are all below 2^d and below q, decoding the encoding gives
\* the vector back; for d = 12 a coefficient c in [q, 2^12) comes back as c - q.
C17_RoundTripBelowQ ==
    (Returned("byte_decode") /\ AllBelow(input.vals, Pow2(input.d))) =>
        \A idx \in 0..(n - 1) :
            output.vals[idx] =
                IF input.vals[idx] < q THEN input.vals[idx] ELSE input.vals[idx] - q

\* a 12-bit round trip of reduced coefficients, the largest being q - 1
C17_Witness ==
    /\ Returned("byte_decode")
    /\ input.d = 12
    /\ AllBelow(input.vals, q)
    /\ \E idx \in 0..(n - 1) : input.vals[idx] = q - 1
    /\ \E idx \in 0..(n - 1) : input.vals[idx] # input.vals[0]
    /\ output.vals = input.vals

\* C18: for d in {1, 4, 5, 10, 11, 12} and coefficients below 2^d,
\* byte_encode returns 32 * d bytes, and bit number b of the output (bytes in
\* order, least significant bit first) is bit (b mod d) of coefficient b div d.
C18_EncodingBitOrder ==
    (Returned("byte_encode") /\ AllBelow(input.vals, Pow2(input.d))) =>
        /\ Len(output.bytes) = 32 * input.d
        /\ \A b \in 0..(n * input.d - 1) :
              BitOf(output.bytes, b) = Shr(input.vals[b \div input.d], b % input.d) % 2

\* an 11-bit encoding of a vector with different coefficients, whose values
\* straddle byte boundaries
C18_Witness ==
    /\ Returned("byte_encode")
    /\ input.d = 11
    /\ input.vals[0] # input.vals[1]
    /\ Len(output.bytes) = 32 * 11
    /\ output.bytes[1] = input.vals[0] % 256
    /\ output.bytes[2] = (input.vals[0] \div 256) + 8 * (input.vals[1] % 32)


\* C19: for a ring element f with coefficients in [0, q), the inverse
\* transform of the forward transform of f is f, coefficient for coefficient.
C19_NttRoundTrip ==
    Returned("ntt_inv") => output.f = input.f

C19_Witness ==
    /\ Returned("ntt_inv")
    /\ input.f[0] # input.f[1]
    /\ output.f_hat # input.f
    /\ output.f = input.f

\* Term idx of coefficient k of the product in Z_q[X]/(X^n + 1):
\* f[idx] * g[k - idx], and with the opposite sign when the exponent wraps
\* past n (X^n = -1).
SchoolbookTerm(f, g, k, idx) ==
    IF idx <= k THEN (f[idx] * g[k - idx]) % q
    ELSE (q - ((f[idx] * g[n + k - idx]) % q)) % q

\* the sum of the terms lo..hi of coefficient k, modulo q
RECURSIVE SchoolbookSum(_, _, _, _, _)
SchoolbookSum(f, g, k, lo, hi) ==
    IF lo = hi THEN SchoolbookTerm(f, g, k, lo)
    ELSE LET mid == (lo + hi) \div 2
         IN  (SchoolbookSum(f, g, k, lo, mid) + SchoolbookSum(f, g, k, mid + 1, hi)) % q

\* the schoolbook product f * g in Z_q[X]/(X^n + 1)
Schoolbook(f, g) == Eval([k \in 0..(n - 1) |-> SchoolbookSum(f, g, k, 0, n - 1)])

\* C20: for ring elements f, g with reduced coefficients,
\* multiply_ntts(NTT(f), NTT(g)) is the NTT of the schoolbook product of f
\* and g in Z_q[X]/(X^256 + 1).
C20_MultiplyIsNttOfProduct ==
    Returned("multiply_ntts") => output.h_hat = ntt(Schoolbook(input.f, input.g))

C20_Witness ==
    /\ Returned("multiply_ntts")
    /\ input.f # input.g
    /\ input.f[0] # input.f[1]
    /\ input.g[0] # input.g[1]
    /\ output.h_hat = ntt(Schoolbook(input.f, input.g))
    /\ ntt_inv(output.h_hat) = Schoolbook(input.f, input.g)


\* the sampling loops of fn are running or have run
Sampling(fn) == input.fn = fn /\ output # <<>>

\* C21: in k_pke_encrypt the sampler calls are, in order: k calls for rvec
\* with width eta1 and nonces 0..k-1, k calls for e1 with width eta2 and
\* nonces k..2k-1, one call for e2 with width eta2 and nonce 2k; so call
\* number c uses nonce c - 1 and no nonce twice.
C21_EncryptSamplingOrder ==
    Sampling("k_pke_encrypt") =>
        LET k == ParameterSets[input.P].K
        IN  \A c \in 1..Len(output.calls) :
                /\ output.calls[c].nonce = c - 1
                /\ output.calls[c].vec =
                      IF c <= k THEN "r" ELSE IF c <= 2 * k THEN "e_1" ELSE "e2"
                /\ output.calls[c].eta =
                      IF c <= k THEN ParameterSets[input.P].EtaOne
                      ELSE ParameterSets[input.P].EtaTwo

\* C22: in k_pke_keygen rho and sigma are the two 32-byte halves of G(d); the
\* sampler calls are, in order, k calls for s and k calls for e, all with
\* width eta1 and seed sigma, call number c with nonce c - 1 (no nonce
\* twice); each sampled polynomial is stored NTT-transformed.
C22_KeygenSamplingOrder ==
    Sampling("k_pke_keygen") =>
        LET k == ParameterSets[input.P].K
            eta1 == ParameterSets[input.P].EtaOne
        IN  /\ output.rho \o output.sigma = Sha3_512(input.seed)
            /\ Len(output.rho) = 32
            /\ output.n = Len(output.calls)
            /\ \A c \in 1..Len(output.calls) :
                  /\ output.calls[c].nonce = c - 1
                  /\ output.calls[c].vec = IF c <= k THEN "s" ELSE "e"
                  /\ output.calls[c].eta = eta1
                  /\ output.calls[c].sample = sample_poly_cbd(eta1, output.sigma, c - 1)
                  /\ output.calls[c].stored = ntt(output.calls[c].sample)

\* the loops of k_pke_keygen::<KEM_512> have made all 2k calls, with width 3
C22_Witness ==
    /\ Sampling("k_pke_keygen")
    /\ input.P = "KEM_512"
    /\ Len(output.calls) = 4
    /\ output.calls[3].vec = "e"
    /\ output.calls[3].nonce = 2
    /\ output.calls[3].eta = 3
    /\ output.calls[3].sample # output.calls[1].sample


\* C23: for the same rho and all i, j in 0..k-1, the entry encryption uses at
\* (row i, column j), position i * k + j of its matrix, is the entry key
\* generation uses at (row j, column i), position j * k + i of its matrix,
\* and it is sample_ntt(rho, i, j).
C23_EncryptUsesTranspose ==
    (output.a_hat # <<>> /\ output.a_hat_transpose # <<>>) =>
        LET k == ParameterSets[input.P].K
        IN  \A i \in 0..(k - 1), j \in 0..(k - 1) :
                /\ output.a_hat_transpose[i * k + j] = output.a_hat[j * k + i]
                /\ output.a_hat_transpose[i * k + j] = sample_ntt(input.rho, i, j)

\* both matrices generated for k = 3, and the matrix is not symmetric
C23_Witness ==
    /\ output.a_hat # <<>>
    /\ output.a_hat_transpose # <<>>
    /\ input.P = "KEM_768"
    /\ output.a_hat[1] # output.a_hat[3]
    /\ output.a_hat_transpose[1] = output.a_hat[3]


\* the number of XOF bytes compared against: 40 buffers of 24 bytes
XofBytes == 24 * 40

\* The 12-bit integers of the SHAKE-128 stream of rho || ii || jj, in stream
\* order: 3-byte block number t gives value 2t + 1 (the low 12 bits of the
\* block) and value 2t + 2 (the high 12 bits).
XofValues(rho, ii, jj) ==
    LET bytes == Shake128Read(rho \o <<ii, jj>>, 0, XofBytes)
    IN  [m \in 1..(2 * (XofBytes \div 3)) |->
            LET blk == 3 * ((m - 1) \div 2)
            IN  IF m % 2 = 1
                THEN bytes[blk + 1] + 256 * (bytes[blk + 2] % 16)
                ELSE (bytes[blk + 2] \div 16) + 16 * bytes[blk + 3]]

BelowQ(v) == v < q

\* C24: sample_ntt(rho, i, j) is the first 256 values below q of the stream
\* of 12-bit integers of the XOF output, in stream order; every coefficient
\* is below q and exactly n = 256 coefficients are written.
C24_SampleNttIsFilteredStream ==
    output.a_hat_transpose # <<>> =>
        LET k == ParameterSets[input.P].K
        IN  \A i \in 0..(k - 1), j \in 0..(k - 1) :
                LET accepted == SelectSeq(XofValues(input.rho, i, j), BelowQ)
                    a == output.a_hat_transpose[i * k + j]
                IN  /\ Len(accepted) >= n
                    /\ DOMAIN a = 0..(n - 1)
                    /\ \A idx \in 0..(n - 1) : a[idx] = accepted[idx + 1] /\ a[idx] < q

\* a sample in which values were rejected before the last coefficient: the
\* coefficients are not the first 256 values of the stream, and more than one
\* 24-byte buffer per 16 coefficients was needed
C24_Witness ==
    /\ output.a_hat_transpose # <<>>
    /\ LET vals == XofValues(input.rho, 0, 0)
           a == output.a_hat_transpose[0]
       IN  /\ \E idx \in 0..(n - 1) : a[idx] # vals[idx + 1]
           /\ \E m \in 1..(n + 16) : vals[m] >= q
           /\ a[n - 1] = SelectSeq(vals, BelowQ)[n]


\* C25: byte_decode_12 returns an error when the input is not 384 bytes long
\* or one of the 256 12-bit values in it is q or more, and otherwise returns
\* the 256 values unchanged; check_reduced accepts a value exactly when it is
\* below q.
C25_Decode12RejectsUnreduced ==
    /\ (input.fn = "byte_decode_12" /\ output # <<>>) =>
          IF Len(input.b) # ENCODE_12 THEN output.tag = "Err"
          ELSE IF \E pos \in 0..(n - 1) : Value12(input.b, pos) >= q
               THEN output.tag = "Err"
               ELSE /\ output.tag = "Ok"
                    /\ \A pos \in 0..(n - 1) : output.val[pos] = Value12(input.b, pos)
    /\ (input.fn = "check_reduced" /\ output # <<>>) =>
          (output.tag = "Ok" <=> input.val < q)


\* the seed the sampler calls of the running function are made with
SamplerSeed == IF input.fn = "k_pke_keygen" THEN output.sigma ELSE input.seed

\* the number of ones among the bits at the positions of a byte string
OnesAt(bytes, positions) == Cardinality({t \in positions : BitOf(bytes, t) = 1})

\* C26: for every seed and nonce, coefficient c of sample_poly_cbd with width
\* eta is (the sum of eta PRF bits) - (the sum of the next eta PRF bits)
\* modulo q, so it is in {0..eta} or {q - eta..q - 1}, a difference -v being
\* q - v.
C26_CbdCoefficients ==
    (output # <<>> /\ input.fn \in {"k_pke_keygen", "k_pke_encrypt"}) =>
        \A c \in 1..Len(output.calls) :
            LET call == output.calls[c]
                eta == call.eta
                prf == Shake256Read(SamplerSeed \o <<call.nonce>>, 0, 64 * eta)
            IN  \A idx \in 0..(n - 1) :
                    LET x == OnesAt(prf, (2 * idx * eta)..(2 * idx * eta + eta - 1))
                        y == OnesAt(prf, (2 * idx * eta + eta)..(2 * idx * eta + 2 * eta - 1))
                    IN  /\ call.sample[idx] = (IF x >= y THEN x - y ELSE q - (y - x))
                        /\ call.sample[idx] \in (0..eta) \cup ((q - eta)..(q - 1))

\* a width-3 sample with a coefficient for a negative difference and one for a
\* positive difference
C26_Witness ==
    /\ output # <<>> /\ input.fn = "k_pke_keygen"
    /\ Len(output.calls) >= 1
    /\ output.calls[1].eta = 3
    /\ \E idx \in 0..(n - 1) : output.calls[1].sample[idx] >= q - 3
    /\ \E idx \in 0..(n - 1) : output.calls[1].sample[idx] \in 1..3


\* C27: in mlkem_decaps the selection between K' and K-bar executes the same
\* sequence of statements for a ciphertext that passes the re-encryption
\* check and for one that fails it.
C27_SelectionStepsIndependent ==
    (pc = "decapsulated" /\ dec.res.tag = "Ok") =>
        dec.steps = implicit_reject_steps(1)


\* C28: for an NTT-domain element x whose coefficients fit in d bits,
\* decoding the encoding of x with the Encode<D> pair of NttElement gives x
\* back: no transform is applied.
C28_NttElementEncodeRoundTrip ==
    (Returned("NttElement::decode") /\ AllBelow(input.vals, Pow2(input.d))) =>
        output.vals = input.vals


\* C29: a call of mlkem_encaps that returns Err(InvalidInput) leaves the
\* random source as it was and produces no K, c or m; a call that returns Ok
\* has drawn exactly one 32-byte block, the one that became m; and the call
\* returns nothing else.
C29_InvalidInputLeavesRng ==
    [][Encaps =>
        /\ IsInvalidInput(enc'.res) \/ enc'.res.tag = "Ok"
        /\ IsInvalidInput(enc'.res) =>
              rng' = rng /\ enc'.m = <<>> /\ enc'.r = <<>> /\ cIn' = <<>>
        /\ enc'.res.tag = "Ok" =>
              /\ rng' = [rng EXCEPT !.drawn = @ + 1]
              /\ enc'.res.val.K =
                   derive_keys(RngBlock(rng.seed, rng.drawn),
                               hash_to_slice(ekIn, 32)).K]_vars

\* an encapsulation has rejected a key of the right length (the modulus check
\* failed) and the random source stands where key generation left it
C29_Witness ==
    /\ pc = "encapsulated" /\ IsInvalidInput(enc.res)
    /\ Len(ekIn) = ENCODE_12 * ParameterSets[P].K + 32
    /\ rng = ml_kem_keygen(P, [rng EXCEPT !.drawn = 0]).rng


\* C30: unpack_dk applied to the dk that ml_kem_keygen packed from dk_PKE,
\* ek_PKE, h = H(ek) and z returns those four byte strings; the four slices
\* have lengths 384k, 384k + 32, 32 and 32, and laid end to end in that
\* order they are the whole of dk, which is 768k + 96 bytes long.
C30_UnpackInvertsPack ==
    pc # "start" =>
        LET k == ParameterSets[P].K
            parts == unpack_dk(P, key.dk)
        IN  /\ parts.dk_pke = key.dk_pke
            /\ parts.ek_pke = key.ek
            /\ parts.h = hash_ek(key.ek)
            /\ parts.z = key.z
            /\ Len(parts.dk_pke) = 384 * k
            /\ Len(parts.ek_pke) = 384 * k + 32
            /\ Len(parts.h) = 32
            /\ Len(parts.z) = 32
            /\ Len(key.dk) = 768 * k + 96
            /\ ((parts.dk_pke \o parts.ek_pke) \o parts.h) \o parts.z = key.dk

\* a KEM_1024 key has been generated; its dk is 3168 bytes, and the z and h
\* that unpack_dk finds in it differ from one another
C30_Witness ==
    /\ pc = "keyed" /\ P = "KEM_1024"
    /\ Len(key.dk) = 3168
    /\ unpack_dk(P, key.dk).z = key.z
    /\ unpack_dk(P, key.dk).h # key.z

=============================================================================
